---------------------------- MODULE Spec2Model ----------------------------
(***************************************************************************)
(* A model of the file-explorer core of src/src/desktop-sim.tsx: the       *)
(* File / Directory tree (add, children, cascading delete), File.ext, the  *)
(* FSViewModel (cwd, selection, deleteSelection) and the Selection model   *)
(* the view model delegates to.                                            *)
(*                                                                         *)
(* Selection is imported from "./selection", which is not part of the      *)
(* source at hand; its operators are written from the specification's      *)
(* section 4.2.                                                            *)
(***************************************************************************)
EXTENDS Integers, Sequences, FiniteSets, TLC

VARIABLES
    parent,      \* item -> owning Directory or None        (File.parent, Directory.parent)
    deleted,     \* directory -> tombstone flag             (Directory.deleted)
    children,    \* directory -> insertion-ordered sequence (Directory._children)
    cwd,         \* FSViewModel.cwd
    selection,   \* FSViewModel.selection: [universe, selected, anchor]
    last,        \* the last call made and how it ended
    extName,     \* the name of the File whose ext is read
    extResult,   \* what File.ext returned, or NotRead
    adds,        \* the number of Directory.add calls made so far
    rowCount,        \* Virtualizer: items.length
    overscan,        \* Virtualizer: the rows rendered beyond each edge
    scrollTop,       \* Virtualizer: the scroll offset observed
    viewportHeight,  \* Virtualizer: the height of the scroll container
    layout,          \* Virtualizer: what the last layout pass produced
    created,     \* what FSViewModel.create returned or threw, or NotCreated
    pathResult,  \* what a read of path gave, or NotRead
    mounted,     \* useDragListener: the component is mounted
    enabled,     \* useDragListener: the enabled argument of the last render
    effects,     \* useDragListener: the effects run so far, in order
    listeners,   \* the event listeners registered on the element and document
    reported,    \* the effects whose onMouseMove the last event invoked
    expandedDirs \* FSViewModel.expandedDirs

treeVars == <<parent, deleted, children>>
viewVars == <<cwd, selection>>
extVars  == <<extName, extResult>>
virtVars == <<rowCount, overscan, scrollTop, viewportHeight, layout>>
itemVars == <<created, pathResult>>
dragVars == <<mounted, enabled, effects, listeners, reported>>
vars     == <<parent, deleted, children, cwd, selection, last, extName, extResult,
             adds, rowCount, overscan, scrollTop, viewportHeight, layout,
             created, pathResult, mounted, enabled, effects, listeners,
             reported, expandedDirs>>

---------------------------------------------------------------------------
(* The items that exist.  Identity is the string; the name is in ItemName. *)

Dirs  == {"root", "docs", "src"}
Files == {"notes"}
Items == Dirs \cup Files

None == "none"

\* The number of Directory.add calls a run makes: the caps that keep the
\* model of the tree and the model of the view model finite.
MaxTreeAdds == 3
MaxViewAdds == 2

\* item.name: distinct here; Collation is the order localeCompare gives them.
ItemName == [i \in Items |-> i]
Collation == <<"docs", "notes", "root", "src">>

Rank(n) == CHOOSE k \in 1..Len(Collation) : Collation[k] = n

\* a.name.localeCompare(b.name) < 0
NameBefore(a, b) == Rank(ItemName[a]) < Rank(ItemName[b])

Range(s) == {s[k] : k \in 1..Len(s)}

---------------------------------------------------------------------------
(* Directory.children: a sorted copy of _children.  Array.prototype.sort   *)
(* is stable, so equal names keep their insertion order.                   *)

RECURSIVE InsertSorted(_, _)
InsertSorted(sorted, x) ==
    IF sorted = <<>> THEN <<x>>
    ELSE IF NameBefore(x, Head(sorted)) THEN <<x>> \o sorted
    ELSE <<Head(sorted)>> \o InsertSorted(Tail(sorted), x)

RECURSIVE SortByName(_)
SortByName(s) ==
    IF s = <<>> THEN <<>>
    ELSE InsertSorted(SortByName(SubSeq(s, 1, Len(s) - 1)), s[Len(s)])

ChildrenOf(ch, d) == SortByName(ch[d])

---------------------------------------------------------------------------
(* The tree operations, as functions of the tree t = [parent, deleted,     *)
(* children, error, returned]: error is the exception the call ends with   *)
(* (or None), returned the value it returns (or None).                     *)

Tree(p, del, ch) ==
    [parent |-> p, deleted |-> del, children |-> ch, error |-> None,
     returned |-> None]

\* A read of children that sorts the internal collection itself: sort()
\* without slice().
ChildrenReadInPlace(t, this) ==
    [t EXCEPT !.children[this] = SortByName(@),
              !.returned = SortByName(t.children[this])]

\* get children(): this._children.slice().sort(...), the value returned and
\* the tree the read leaves
ChildrenRead(t, this) == [t EXCEPT !.returned = ChildrenOf(t.children, this)]

\* Directory.add without its guard
DirectoryAddUnguarded(t, this, item) ==
    [t EXCEPT !.parent[item] = this,
              !.children[this] = Append(@, item),
              !.returned = item]

\* Directory.add(item)
DirectoryAdd(t, this, item) ==
    IF t.deleted[this]
    THEN [t EXCEPT !.error = "InvalidOperation"]
    ELSE [t EXCEPT !.parent[item] = this,
                   !.children[this] = Append(@, item),
                   !.returned = item]

\* item.deleted = true
Tombstone(del, item) == [del EXCEPT ![item] = TRUE]

\* Removal by position: splice(indexOf(item), 1), where indexOf is -1 for an
\* item that is not there and splice(-1, 1) removes the last element.
RemoveChildSplice(seq, item) ==
    IF \A k \in 1..Len(seq) : seq[k] # item
    THEN SubSeq(seq, 1, Len(seq) - 1)
    ELSE LET at == CHOOSE k \in 1..Len(seq) :
                       seq[k] = item /\ \A j \in 1..(k - 1) : seq[j] # item
         IN  SubSeq(seq, 1, at - 1) \o SubSeq(seq, at + 1, Len(seq))

\* this._children.filter((child) => child !== item)
RemoveChild(seq, item) == SelectSeq(seq, LAMBDA child : child # item)

\* The call stack: a chain of nested delete calls longer than the number of
\* items visits some directory twice, and that recursion never returns; the
\* engine ends it with a RangeError.
MaxStack == Cardinality(Items) + 1

RECURSIVE DirectoryDelete(_, _, _, _)
RECURSIVE DeleteEach(_, _, _, _)

\* The loop left out: no cascade.
DeleteEachSkipped(t, item, snapshot, depth) == t

\* for (const child of item.children) item.delete(child)
\* over the snapshot item.children returned when the loop started
DeleteEach(t, item, snapshot, depth) ==
    IF snapshot = <<>> THEN t
    ELSE LET t1 == DirectoryDelete(t, item, Head(snapshot), depth)
         IN  IF t1.error # None THEN t1
             ELSE DeleteEach(t1, item, Tail(snapshot), depth)

\* Directory.delete(item), called with `depth` frames of it on the stack
DirectoryDelete(t, this, item, depth) ==
    IF depth >= MaxStack THEN [t EXCEPT !.error = "RangeError"]
    ELSE LET cascaded ==
                 IF item \in Dirs
                 THEN LET t1 == DeleteEach(t, item, ChildrenOf(t.children, item), depth + 1)
                      IN  IF t1.error # None THEN t1
                          ELSE [t1 EXCEPT !.deleted = Tombstone(@, item)]
                 ELSE t
         IN  IF cascaded.error # None THEN cascaded
             ELSE [cascaded EXCEPT !.children[this] = RemoveChild(@, item)]

---------------------------------------------------------------------------
(* Selection<T> (specification 4.2).  A click is plain, a toggle click     *)
(* (ctrl/cmd held) or a range click (shift held).                          *)

\* new Selection(universe)
NewSelection(universe) ==
    [universe |-> universe, selected |-> {}, anchor |-> None]

\* universe.indexOf(item)
IndexOf(s, x) == CHOOSE k \in 1..Len(s) : s[k] = x /\ \A j \in 1..(k - 1) : s[j] # x

Min(a, b) == IF a <= b THEN a ELSE b
Max(a, b) == IF a >= b THEN a ELSE b

Modifiers == {"plain", "toggle", "range"}

PlainClick(sel, item) == [sel EXCEPT !.selected = {item}, !.anchor = item]

\* A toggle click that moves the anchor only when it selects.
ToggleClickKeepsAnchor(sel, item) ==
    IF item \in sel.selected
    THEN [sel EXCEPT !.selected = @ \ {item}]
    ELSE [sel EXCEPT !.selected = @ \cup {item}, !.anchor = item]

ToggleClick(sel, item) ==
    [sel EXCEPT !.selected = IF item \in @ THEN @ \ {item} ELSE @ \cup {item},
                !.anchor = item]

\* A range click that takes the anchor to come first.
RangeClickForward(sel, item) ==
    IF sel.anchor = None THEN PlainClick(sel, item)
    ELSE [sel EXCEPT !.selected =
                         Range(SubSeq(sel.universe,
                                      IndexOf(sel.universe, sel.anchor),
                                      IndexOf(sel.universe, item)))]

RangeClick(sel, item) ==
    IF sel.anchor = None THEN PlainClick(sel, item)
    ELSE LET from == IndexOf(sel.universe, sel.anchor)
             to   == IndexOf(sel.universe, item)
         IN  [sel EXCEPT !.selected =
                             Range(SubSeq(sel.universe, Min(from, to), Max(from, to)))]

\* Selection.fromClickEvent(item, modifiers)
FromClickEvent(sel, item, modifier) ==
    CASE modifier = "plain"  -> PlainClick(sel, item)
      [] modifier = "toggle" -> ToggleClick(sel, item)
      [] modifier = "range"  -> RangeClick(sel, item)

\* Selection.clear()
SelectionClear(sel) == [sel EXCEPT !.selected = {}, !.anchor = None]

\* Selection.items: the selected items in universe order
SelectionItems(sel) == SelectSeq(sel.universe, LAMBDA x : x \in sel.selected)

---------------------------------------------------------------------------
(* FSViewModel.deleteSelection: the loop over selection.items, then the    *)
(* fresh Selection.  An exception thrown by a delete leaves the loop and   *)
(* the method, so the Selection is not replaced.                           *)

RECURSIVE DeleteItems(_, _)

\* The loop asking the current directory, not the item's parent, to delete.
DeleteItemsFromCwd(t, items) ==
    IF items = <<>> THEN t
    ELSE LET t1 == DirectoryDelete(t, cwd, Head(items), 0)
         IN  IF t1.error # None THEN t1 ELSE DeleteItems(t1, Tail(items))

DeleteItems(t, items) ==
    IF items = <<>> THEN t
    ELSE LET item == Head(items)
             t1   == IF t.parent[item] = None THEN t
                     ELSE DirectoryDelete(t, t.parent[item], item, 0)
         IN  IF t1.error # None THEN t1 ELSE DeleteItems(t1, Tail(items))

---------------------------------------------------------------------------
(* File.ext.  A name is a sequence of characters.                          *)

Dot == "."

\* name.split("."): the pieces between the dots, in order
RECURSIVE Split(_)
Split(name) ==
    IF \A k \in 1..Len(name) : name[k] # Dot THEN <<name>>
    ELSE LET d == CHOOSE k \in 1..Len(name) :
                      name[k] = Dot /\ \A j \in 1..(k - 1) : name[j] # Dot
         IN  <<SubSeq(name, 1, d - 1)>> \o Split(SubSeq(name, d + 1, Len(name)))

\* name.startsWith(".")
StartsWithDot(name) == Len(name) > 0 /\ name[1] = Dot

\* get ext()
Ext(name) ==
    LET parts == Split(name)
    IN  IF Len(parts) = 1
        THEN (IF StartsWithDot(name) THEN parts[1] ELSE <<>>)
        ELSE parts[Len(parts)]

---------------------------------------------------------------------------
(* filepath, behind File.path and Directory.path, for items with the given *)
(* names and parents.                                                      *)

\* parts.push(x): the new element comes last
Push(parts, x) == Append(parts, x)

\* parts.unshift(x): the new element comes first
Unshift(parts, x) == <<x>> \o parts

\* parts.join(sep)
RECURSIVE Join(_, _)
Join(parts, sep) ==
    IF parts = <<>> THEN ""
    ELSE IF Len(parts) = 1 THEN parts[1]
    ELSE parts[1] \o sep \o Join(Tail(parts), sep)

\* do { parts.unshift(item.name); item = item.parent } while (item)
\* A loop that has taken more names than there are items is on a cycle of
\* parents and does not end: parts grows until memory runs out.
RECURSIVE PathParts(_, _, _, _)
PathParts(name, p, item, parts) ==
    IF Len(parts) > Cardinality(DOMAIN name)
    THEN [parts |-> parts, error |-> "OutOfMemory"]
    ELSE LET next == Unshift(parts, name[item])
         IN  IF p[item] = None THEN [parts |-> next, error |-> None]
             ELSE PathParts(name, p, p[item], next)

\* filepath(item)
Filepath(name, p, item) ==
    LET walked == PathParts(name, p, item, <<>>)
    IN  IF walked.error # None THEN [path |-> "", error |-> walked.error]
        ELSE [path |-> Join(walked.parts, "/"), error |-> None]

---------------------------------------------------------------------------
(* FSViewModel.create.  A name is a sequence of characters.                *)

WhiteSpace == {" ", "\t"}

\* name.trim(): the name without the white space at its two ends
RECURSIVE TrimStart(_)
TrimStart(name) ==
    IF name # <<>> /\ Head(name) \in WhiteSpace THEN TrimStart(Tail(name))
    ELSE name

RECURSIVE TrimEnd(_)
TrimEnd(name) ==
    IF name # <<>> /\ name[Len(name)] \in WhiteSpace
    THEN TrimEnd(SubSeq(name, 1, Len(name) - 1))
    ELSE name

Trim(name) == TrimEnd(TrimStart(name))

\* new File(name), new Directory(name)
NewFile(name) == [type |-> "file", name |-> name, parent |-> None]
NewDirectory(name) ==
    [type |-> "directory", name |-> name, parent |-> None, deleted |-> FALSE,
     children |-> <<>>]

\* no item
Nothing == [type |-> None]

\* create without name.trim()
CreateItemUntrimmed(type, name) ==
    IF name = <<>>
    THEN [error |-> "InvalidArgument", returned |-> Nothing]
    ELSE [error |-> None,
          returned |-> IF type = "file" THEN NewFile(name) ELSE NewDirectory(name)]

\* create(type, name): what it throws and what it returns
CreateItem(type, name) ==
    LET trimmed == Trim(name)
    IN  IF trimmed = <<>>
        THEN [error |-> "InvalidArgument", returned |-> Nothing]
        ELSE [error |-> None,
              returned |-> IF type = "file" THEN NewFile(trimmed)
                           ELSE NewDirectory(trimmed)]

---------------------------------------------------------------------------
(* Virtualizer (specification 4.3): a layout pass over items.length rows   *)
(* of height itemHeight, for a scroll offset and a viewport height.        *)

\* <Virtualizer itemHeight={24} ... />
ItemHeight == 24

\* A last row that takes in the row starting at the viewport's lower edge.
LastVisibleClosed(top, height) == (top + height) \div ItemHeight

\* the first and the last row with a pixel in [top, top + height)
FirstVisible(top) == top \div ItemHeight
LastVisible(top, height) == (top + height - 1) \div ItemHeight

\* the row rendered at its place: position absolute, top = index * itemHeight
Row(i) == [index |-> i, top |-> i * ItemHeight]

\* One layout pass: the visible range, cut to the rows there are; the rows
\* materialized, which are the visible ones and `over` more on each side;
\* the height given to the scrollable content.
Layout(n, over, top, height) ==
    LET first == Max(0, FirstVisible(top))
        final == Min(n - 1, LastVisible(top, height))
    IN  [first    |-> first,
         final    |-> final,
         rendered |-> {Row(i) : i \in Max(0, first - over)..Min(n - 1, final + over)},
         extent   |-> n * ItemHeight]

---------------------------------------------------------------------------
(* useDragListener.  An effect is known by its number in `effects`; its    *)
(* closures (handleMouseDown, handleMouseUp, handleMouseMove) and the      *)
(* onMouseMove it was given are handlers of that effect.                   *)

Handler(fn, e) == [fn |-> fn, effect |-> e]

Listener(target, type, handler, capture) ==
    [target |-> target, type |-> type, handler |-> handler, capture |-> capture]

\* target.addEventListener(type, handler, capture)
AddEventListener(ls, target, type, handler, capture) ==
    ls \cup {Listener(target, type, handler, capture)}

\* target.removeEventListener(type, handler, capture): removes the listener
\* registered with this type, this function and this capture flag, if any
RemoveEventListener(ls, target, type, handler, capture) ==
    ls \ {Listener(target, type, handler, capture)}

\* the three addEventListener calls of effect e
Register(ls, e) ==
    LET withDown == AddEventListener(ls, "element", "mousedown",
                                     Handler("handleMouseDown", e), TRUE)
        withUp   == AddEventListener(withDown, "document", "mouseup",
                                     Handler("handleMouseUp", e), TRUE)
    IN  AddEventListener(withUp, "document", "mousemove",
                         Handler("handleMouseMove", e), TRUE)

\* the cleanup effect e returned: three removeEventListener calls, without
\* a capture argument (so capture = false), the last one for onMouseMove
Unregister(ls, e) ==
    LET lessDown == RemoveEventListener(ls, "element", "mousedown",
                                        Handler("handleMouseDown", e), FALSE)
        lessUp   == RemoveEventListener(lessDown, "document", "mouseup",
                                        Handler("handleMouseUp", e), FALSE)
    IN  RemoveEventListener(lessUp, "document", "mousemove",
                            Handler("onMouseMove", e), FALSE)

\* a new effect: let shouldReportDrag = false
NewEffect == [active |-> TRUE, shouldReportDrag |-> FALSE]

\* the handlers that an event of this type on this target reaches
Hears(ls, target, type) ==
    {l.handler : l \in {m \in ls : m.target = target /\ m.type = type}}

---------------------------------------------------------------------------
(* The state after construction: every item is unattached, and the view    *)
(* model is constructed on root (new FSViewModel(root)).                   *)

NotRead == <<"not read">>

\* A call, and how it ended: the exception it threw (or None) and the
\* number of directories it tombstoned.
Call(op, target, item, t, tombstoned) ==
    [op |-> op, target |-> target, item |-> item, error |-> t.error,
     returned |-> t.returned, tombstoned |-> tombstoned]

\* a call that cannot throw and returns nothing
Done == [error |-> None, returned |-> None]

Constructed == Call("new", None, None, Done, 0)

TreeInit ==
    /\ parent = [i \in Items |-> None]
    /\ deleted = [d \in Dirs |-> FALSE]
    /\ children = [d \in Dirs |-> <<>>]

ViewInit ==
    /\ cwd = "root"
    /\ selection = NewSelection(ChildrenOf(children, cwd))

ExtIdle ==
    /\ extName = <<>>
    /\ extResult = NotRead

\* nothing to lay out: no rows, no viewport
VirtIdle ==
    /\ rowCount = 0
    /\ overscan = 0
    /\ scrollTop = 0
    /\ viewportHeight = 0
    /\ layout = Layout(0, 0, 0, 0)

\* create was not called: no arguments, no outcome
NotCreated ==
    [type |-> None, name |-> <<>>, error |-> None, returned |-> Nothing]

\* no path was read
NoPath == [tree |-> None, item |-> None, path |-> "", error |-> None]

\* create was not called, and no path was read
ItemIdle ==
    /\ created = NotCreated
    /\ pathResult = NoPath

\* no component uses useDragListener
DragIdle ==
    /\ mounted = FALSE
    /\ enabled = FALSE
    /\ effects = <<>>
    /\ listeners = {}
    /\ reported = {}

Init ==
    /\ TreeInit
    /\ ViewInit
    /\ ExtIdle
    /\ VirtIdle
    /\ ItemIdle
    /\ DragIdle
    /\ expandedDirs = {}
    /\ last = Constructed
    /\ adds = 0

Now == Tree(parent, deleted, children)

SetTree(t) ==
    /\ parent' = t.parent
    /\ deleted' = t.deleted
    /\ children' = t.children

NewlyTombstoned(t) == Cardinality({d \in Dirs : t.deleted[d] /\ ~deleted[d]})

---------------------------------------------------------------------------
(* The tree model under any calls of its two mutators.                     *)

\* this.add(item), for any directory and any item
Add(this, item) ==
    /\ adds < MaxTreeAdds
    /\ adds' = adds + 1
    /\ \E t \in {DirectoryAdd(Now, this, item)} :
           /\ SetTree(t)
           /\ last' = Call("add", this, item, t, 0)
    /\ UNCHANGED <<viewVars, extVars, virtVars, itemVars, dragVars,
                   expandedDirs>>

\* this.delete(item), for any directory and any item
Delete(this, item) ==
    /\ \E t \in {DirectoryDelete(Now, this, item, 0)} :
           /\ SetTree(t)
           /\ last' = Call("delete", this, item, t, NewlyTombstoned(t))
    /\ UNCHANGED <<viewVars, extVars, virtVars, itemVars, dragVars, adds,
                   expandedDirs>>

TreeNext ==
    \/ \E this \in Dirs, item \in Items : Add(this, item)
    \/ \E this \in Dirs, item \in Items : Delete(this, item)

TreeSpec == Init /\ [][TreeNext]_vars

---------------------------------------------------------------------------
(* Directories that are only added to, and whose children are read.        *)

\* this.children
ReadChildren(this) ==
    /\ \E t \in {ChildrenRead(Now, this)} :
           /\ SetTree(t)
           /\ last' = Call("children", this, None, t, 0)
    /\ UNCHANGED <<viewVars, extVars, virtVars, itemVars, dragVars, adds,
                   expandedDirs>>

ChildrenNext ==
    \/ \E this \in Dirs, item \in Items : Add(this, item)
    \/ \E this \in Dirs : ReadChildren(this)

ChildrenSpec == Init /\ [][ChildrenNext]_vars

---------------------------------------------------------------------------
(* The directory view's click handlers, on a view model constructed on a   *)
(* root that was populated first (as seedDirectory does).                  *)

\* The longest child list root is seeded with.
MaxSeed == 3

RECURSIVE SeqsUpTo(_, _)
SeqsUpTo(S, n) ==
    IF n = 0 THEN {<<>>}
    ELSE LET shorter == SeqsUpTo(S, n - 1)
         IN  shorter \cup {Append(s, x) : s \in shorter, x \in S}

SeededInit ==
    /\ \E seed \in SeqsUpTo(Items \ {"root"}, MaxSeed) :
           /\ children = [d \in Dirs |-> IF d = "root" THEN seed ELSE <<>>]
           /\ parent = [i \in Items |-> IF i \in Range(seed) THEN "root" ELSE None]
    /\ deleted = [d \in Dirs |-> FALSE]
    /\ ViewInit
    /\ ExtIdle
    /\ VirtIdle
    /\ ItemIdle
    /\ DragIdle
    /\ expandedDirs = {}
    /\ last = Constructed
    /\ adds = 0

\* A click on any item, whether the Selection's universe holds it or not.
ClickAnywhere(item, modifier) ==
    /\ selection' = FromClickEvent(selection, item, modifier)
    /\ last' = Call("click", modifier, item, Done, 0)
    /\ UNCHANGED <<treeVars, cwd, extVars, virtVars, itemVars, dragVars, adds,
                   expandedDirs>>

\* A click on an item without e.stopPropagation(): the click goes on to the
\* canvas, whose handler runs after the item's.
ClickBubbles(item, modifier) ==
    /\ item \in Range(selection.universe)
    /\ selection' = IF modifier = "plain"
                    THEN SelectionClear(FromClickEvent(selection, item, modifier))
                    ELSE FromClickEvent(selection, item, modifier)
    /\ last' = Call("click", modifier, item, Done, 0)
    /\ UNCHANGED <<treeVars, cwd, extVars, virtVars, itemVars, dragVars, adds,
                   expandedDirs>>

\* DirectoryViewItem onClick: view.selection.fromClickEvent(item, e), for an
\* item of the selection's universe; the click does not reach the canvas.
Click(item, modifier) ==
    /\ item \in Range(selection.universe)
    /\ selection' = FromClickEvent(selection, item, modifier)
    /\ last' = Call("click", modifier, item, Done, 0)
    /\ UNCHANGED <<treeVars, cwd, extVars, virtVars, itemVars, dragVars, adds,
                   expandedDirs>>

\* A click on the canvas can also come with both keys held.
CanvasModifiers == Modifiers \cup {"toggle+range"}

\* e.ctrlKey, e.shiftKey
CtrlKey(modifier)  == modifier \in {"toggle", "toggle+range"}
ShiftKey(modifier) == modifier \in {"range", "toggle+range"}

\* DirectoryView onClick: a click on the canvas
CanvasClick(modifier) ==
    /\ selection' = IF ~CtrlKey(modifier) /\ ~ShiftKey(modifier)
                    THEN SelectionClear(selection)
                    ELSE selection
    /\ last' = Call("canvas", modifier, None, Done, 0)
    /\ UNCHANGED <<treeVars, cwd, extVars, virtVars, itemVars, dragVars, adds,
                   expandedDirs>>

ClickNext ==
    \/ \E item \in Items, modifier \in Modifiers : Click(item, modifier)
    \/ \E modifier \in CanvasModifiers : CanvasClick(modifier)

ClickSpec == SeededInit /\ [][ClickNext]_vars

---------------------------------------------------------------------------
(* The view model: the tree is changed through the current directory and   *)
(* through deleteSelection, and cwd is reassigned.  These calls are        *)
(* recorded in `last` by name and outcome, without their arguments.        *)

\* view.cwd.add(item)
CwdAdd(item) ==
    /\ adds < MaxViewAdds
    /\ adds' = adds + 1
    /\ \E t \in {DirectoryAdd(Now, cwd, item)} :
           /\ SetTree(t)
           /\ last' = Call("cwd.add", None, None, t, 0)
    /\ UNCHANGED <<viewVars, extVars, virtVars, itemVars, dragVars,
                   expandedDirs>>

\* view.cwd.delete(item)
CwdDelete(item) ==
    /\ \E t \in {DirectoryDelete(Now, cwd, item, 0)} :
           /\ SetTree(t)
           /\ last' = Call("cwd.delete", None, None, t, 0)
    /\ UNCHANGED <<viewVars, extVars, virtVars, itemVars, dragVars, adds,
                   expandedDirs>>

\* view.cwd = dir
SetCwd(dir) ==
    /\ dir # cwd
    /\ cwd' = dir
    /\ last' = Call("cwd", None, None, Done, 0)
    /\ UNCHANGED <<treeVars, selection, extVars, virtVars, itemVars, dragVars, adds,
                   expandedDirs>>

\* A deleteSelection that moves the selection on to the first item left.
SelectionAfterSelectsNext(t) ==
    IF t.error # None THEN selection
    ELSE LET left == ChildrenOf(t.children, cwd)
         IN  IF left = <<>> THEN NewSelection(left)
             ELSE PlainClick(NewSelection(left), Head(left))

\* this.selection = new Selection(this.cwd.children), unless a delete threw
SelectionAfter(t) ==
    IF t.error # None THEN selection
    ELSE NewSelection(ChildrenOf(t.children, cwd))

\* the call follows directly on a deleteSelection() that returned
Again ==
    IF last.op = "deleteSelection" /\ last.error = None THEN "again" ELSE None

\* view.deleteSelection()
DeleteSelection ==
    /\ \E t \in {DeleteItems(Now, SelectionItems(selection))} :
           /\ SetTree(t)
           /\ selection' = SelectionAfter(t)
           /\ last' = Call("deleteSelection", Again, None, t, NewlyTombstoned(t))
    /\ UNCHANGED <<cwd, extVars, virtVars, itemVars, dragVars, adds,
                   expandedDirs>>

ViewNext ==
    \/ \E item \in Items : CwdAdd(item)
    \/ \E item \in Items : CwdDelete(item)
    \/ \E dir \in Dirs : SetCwd(dir)
    \/ \E item \in Items, modifier \in Modifiers : Click(item, modifier)
    \/ DeleteSelection

ViewSpec == Init /\ [][ViewNext]_vars

---------------------------------------------------------------------------
(* The view model's expanded directories, on a populated root: directories *)
(* are expanded and collapsed, items are clicked, and the selection is     *)
(* deleted.                                                                *)

\* the optional argument `expanded` of toggleExpanded
Flags == {"undefined", "true", "false"}

\* expanded = expanded ?? !this.expandedDirs.has(dir)
Wanted(dir, flag) ==
    IF flag = "undefined" THEN dir \notin expandedDirs ELSE flag = "true"

\* view.toggleExpanded(dir, expanded)
ToggleExpanded(dir, flag) ==
    /\ expandedDirs' = IF Wanted(dir, flag) THEN expandedDirs \cup {dir}
                       ELSE expandedDirs \ {dir}
    /\ last' = Call("toggleExpanded", flag, dir, Done, 0)
    /\ UNCHANGED <<treeVars, viewVars, extVars, virtVars, itemVars, dragVars,
                   adds>>

\* view.expanded(item)
Expanded(item) == item \in Dirs /\ item \in expandedDirs

ExpandNext ==
    \/ \E dir \in Dirs, flag \in Flags : ToggleExpanded(dir, flag)
    \/ \E item \in Items, modifier \in Modifiers : Click(item, modifier)
    \/ DeleteSelection

ExpandSpec == SeededInit /\ [][ExpandNext]_vars

---------------------------------------------------------------------------
(* Reading File.ext of a File with a given name.                           *)

\* The longest name drawn from Chars.
MaxNameLen == 4
Chars == {Dot, "a", "b"}

ReportTarGz == <<"r","e","p","o","r","t",".","t","a","r",".","g","z">>
Readme      == <<"R","E","A","D","M","E">>
GitIgnore   == <<".","g","i","t","i","g","n","o","r","e">>

ExtInit ==
    /\ TreeInit
    /\ ViewInit
    /\ VirtIdle
    /\ ItemIdle
    /\ DragIdle
    /\ expandedDirs = {}
    /\ last = Constructed
    /\ adds = 0
    /\ extName \in SeqsUpTo(Chars, MaxNameLen) \cup {ReportTarGz, Readme, GitIgnore}
    /\ extResult = NotRead

\* file.ext
ReadExt ==
    /\ extResult = NotRead
    /\ extResult' = Ext(extName)
    /\ last' = Call("ext", None, None, Done, 0)
    /\ UNCHANGED <<treeVars, viewVars, extName, adds, virtVars, itemVars, dragVars,
                   expandedDirs>>

ExtNext == ReadExt

ExtSpec == ExtInit /\ [][ExtNext]_vars

---------------------------------------------------------------------------
(* FSViewModel.create, called on a view model constructed on a populated   *)
(* root.                                                                   *)

\* The longest name passed to create, drawn from CreateChars.
MaxCreateLen == 3
CreateChars == WhiteSpace \cup {"a", "b"}
Types == {"file", "directory"}

\* view.create(type, name); `created` keeps the arguments and the outcome
Create(type, name) ==
    /\ created = NotCreated
    /\ \E r \in {CreateItem(type, name)} :
           created' = [type |-> type, name |-> name, error |-> r.error,
                       returned |-> r.returned]
    /\ last' = Call("create", None, None, Done, 0)
    /\ UNCHANGED <<treeVars, viewVars, extVars, virtVars, dragVars, adds,
                   pathResult, expandedDirs>>

CreateNext ==
    \E type \in Types, name \in SeqsUpTo(CreateChars, MaxCreateLen) :
        Create(type, name)

CreateSpec == SeededInit /\ [][CreateNext]_vars

---------------------------------------------------------------------------
(* Reading path.  The items start attached in any of the ways add calls    *)
(* can leave them: add assigns item.parent whatever the item and the       *)
(* directory, so every assignment of parents is one of them.  Next to      *)
(* them stands the specification's chain: a root named "", its directory   *)
(* "a", and the file "b.txt" in it.                                        *)

ChainItems  == {"R", "a", "b.txt"}
ChainName   == [i \in ChainItems |-> IF i = "R" THEN "" ELSE i]
ChainParent == [i \in ChainItems |->
                   IF i = "b.txt" THEN "a" ELSE IF i = "a" THEN "R" ELSE None]

\* the items whose parent is d, as one add per item leaves d._children
Attached(p, d) == SortByName(SelectSeq(Collation, LAMBDA x : p[x] = d))

AttachedInit ==
    /\ parent \in [Items -> Dirs \cup {None}]
    /\ children = [d \in Dirs |-> Attached(parent, d)]
    /\ deleted = [d \in Dirs |-> FALSE]
    /\ ViewInit
    /\ ExtIdle
    /\ VirtIdle
    /\ ItemIdle
    /\ DragIdle
    /\ expandedDirs = {}
    /\ last = Constructed
    /\ adds = 0

\* item.path, for an item of the tree
ReadPath(item) ==
    /\ \E r \in {Filepath(ItemName, parent, item)} :
           pathResult' = [tree |-> "items", item |-> item, path |-> r.path,
                          error |-> r.error]
    /\ last' = Call("path", None, None, Done, 0)
    /\ UNCHANGED <<treeVars, viewVars, extVars, virtVars, dragVars, adds,
                   created, expandedDirs>>

\* item.path, for an item of the chain
ReadChainPath(item) ==
    /\ \E r \in {Filepath(ChainName, ChainParent, item)} :
           pathResult' = [tree |-> "chain", item |-> item, path |-> r.path,
                          error |-> r.error]
    /\ last' = Call("path", None, None, Done, 0)
    /\ UNCHANGED <<treeVars, viewVars, extVars, virtVars, dragVars, adds,
                   created, expandedDirs>>

PathNext ==
    \/ \E item \in Items : ReadPath(item)
    \/ \E item \in ChainItems : ReadChainPath(item)

PathSpec == AttachedInit /\ [][PathNext]_vars

---------------------------------------------------------------------------
(* The Virtualizer of the directory view: it is mounted on some rows, and  *)
(* then scrolled, resized and given other rows, each followed by a layout  *)
(* pass.                                                                   *)

\* The most rows, the furthest scroll offset, the tallest viewport and the
\* widest overscan tried, next to the specification's scenario of 1000
\* rows in a viewport of 240 scrolled to 480.
MaxRows == 4
MaxScrollTop == 26
MaxViewportHeight == 25
MaxOverscan == 1

RowCounts == 0..MaxRows \cup {1000}
ScrollTops == 0..MaxScrollTop \cup {480}
ViewportHeights == 1..MaxViewportHeight \cup {240}

VirtInit ==
    /\ TreeInit
    /\ ViewInit
    /\ ExtIdle
    /\ ItemIdle
    /\ DragIdle
    /\ expandedDirs = {}
    /\ last = Constructed
    /\ adds = 0
    /\ rowCount \in RowCounts
    /\ overscan \in 0..MaxOverscan
    /\ scrollTop = 0
    /\ viewportHeight \in ViewportHeights
    /\ layout = Layout(rowCount, overscan, scrollTop, viewportHeight)

\* a scroll event
Scroll(top) ==
    /\ top # scrollTop
    /\ scrollTop' = top
    /\ layout' = Layout(rowCount, overscan, top, viewportHeight)
    /\ last' = Call("scroll", None, None, Done, 0)
    /\ UNCHANGED <<treeVars, viewVars, extVars, itemVars, dragVars, adds,
                   rowCount, overscan, viewportHeight, expandedDirs>>

\* a resize of the scroll container
Resize(height) ==
    /\ height # viewportHeight
    /\ viewportHeight' = height
    /\ layout' = Layout(rowCount, overscan, scrollTop, height)
    /\ last' = Call("resize", None, None, Done, 0)
    /\ UNCHANGED <<treeVars, viewVars, extVars, itemVars, dragVars, adds,
                   rowCount, overscan, scrollTop, expandedDirs>>

\* A render with other items that keeps the layout of the pass before.
SetItemsKeepsLayout(n) ==
    /\ n # rowCount
    /\ rowCount' = n
    /\ last' = Call("items", rowCount, None, Done, 0)
    /\ UNCHANGED <<treeVars, viewVars, extVars, itemVars, dragVars, adds,
                   overscan, scrollTop, viewportHeight, layout, expandedDirs>>

\* a render with items of another length (the rows of cwd.children after a
\* deletion or an addition); `last` keeps the length before
SetItems(n) ==
    /\ n # rowCount
    /\ rowCount' = n
    /\ layout' = Layout(n, overscan, scrollTop, viewportHeight)
    /\ last' = Call("items", rowCount, None, Done, 0)
    /\ UNCHANGED <<treeVars, viewVars, extVars, itemVars, dragVars, adds,
                   overscan, scrollTop, viewportHeight, expandedDirs>>

VirtNext ==
    \/ \E top \in ScrollTops : Scroll(top)
    \/ \E height \in ViewportHeights : Resize(height)
    \/ \E n \in RowCounts : SetItems(n)

VirtSpec == VirtInit /\ [][VirtNext]_vars

---------------------------------------------------------------------------
(* A component that calls useDragListener(ref, onMouseMove, enabled): it   *)
(* is mounted, rendered again with another `enabled` or another            *)
(* onMouseMove, and unmounted, while the mouse is pressed on the element,  *)
(* released and moved.                                                     *)

\* The number of effects that register listeners in a run.
MaxEffects == 4

Tags == {"BUTTON", "DIV"}

\* the effect whose cleanup React holds, or 0
Current ==
    IF effects # <<>> /\ effects[Len(effects)].active THEN Len(effects) ELSE 0

\* React runs the cleanup of the effect in place
CleanedUp == [k \in DOMAIN effects |-> [effects[k] EXCEPT !.active = FALSE]]
AfterCleanup == IF Current = 0 THEN listeners ELSE Unregister(listeners, Current)

\* the effect body, run with ref.current set and this `enabled`, after the
\* cleanup of the effect before it
RunEffect(en) ==
    IF en
    THEN /\ Len(effects) < MaxEffects
         /\ effects' = Append(CleanedUp, NewEffect)
         /\ listeners' = Register(AfterCleanup, Len(effects) + 1)
    ELSE /\ effects' = CleanedUp
         /\ listeners' = AfterCleanup

Mount(en) ==
    /\ ~mounted
    /\ mounted' = TRUE
    /\ enabled' = en
    /\ RunEffect(en)
    /\ reported' = {}
    /\ last' = Call("mount", None, None, Done, 0)
    /\ UNCHANGED <<treeVars, viewVars, extVars, virtVars, itemVars, adds,
                   expandedDirs>>

\* a render with another value of `enabled`
SetEnabled(en) ==
    /\ mounted
    /\ en # enabled
    /\ enabled' = en
    /\ RunEffect(en)
    /\ reported' = {}
    /\ last' = Call("render", None, None, Done, 0)
    /\ UNCHANGED <<treeVars, viewVars, extVars, virtVars, itemVars, adds,
                   mounted, expandedDirs>>

\* a render with another onMouseMove
SetCallback ==
    /\ mounted
    /\ RunEffect(enabled)
    /\ reported' = {}
    /\ last' = Call("render", None, None, Done, 0)
    /\ UNCHANGED <<treeVars, viewVars, extVars, virtVars, itemVars, adds,
                   mounted, enabled, expandedDirs>>

Unmount ==
    /\ mounted
    /\ mounted' = FALSE
    /\ effects' = CleanedUp
    /\ listeners' = AfterCleanup
    /\ reported' = {}
    /\ last' = Call("unmount", None, None, Done, 0)
    /\ UNCHANGED <<treeVars, viewVars, extVars, virtVars, itemVars, adds,
                   enabled, expandedDirs>>

\* a mousedown on the mounted element or inside it, on a target with this
\* tag: every handleMouseDown it reaches runs
MouseDown(tag) ==
    /\ mounted
    /\ effects' =
           [k \in DOMAIN effects |->
               IF /\ Handler("handleMouseDown", k)
                        \in Hears(listeners, "element", "mousedown")
                  /\ tag # "BUTTON"
               THEN [effects[k] EXCEPT !.shouldReportDrag = TRUE]
               ELSE effects[k]]
    /\ reported' = {}
    /\ last' = Call("mousedown", tag, None, Done, 0)
    /\ UNCHANGED <<treeVars, viewVars, extVars, virtVars, itemVars, adds,
                   mounted, enabled, listeners, expandedDirs>>

\* a mouseup in the document: every handleMouseUp it reaches runs
MouseUp ==
    /\ effects' =
           [k \in DOMAIN effects |->
               IF Handler("handleMouseUp", k)
                      \in Hears(listeners, "document", "mouseup")
               THEN [effects[k] EXCEPT !.shouldReportDrag = FALSE]
               ELSE effects[k]]
    /\ reported' = {}
    /\ last' = Call("mouseup", None, None, Done, 0)
    /\ UNCHANGED <<treeVars, viewVars, extVars, virtVars, itemVars, adds,
                   mounted, enabled, listeners, expandedDirs>>

\* a mousemove in the document: every handleMouseMove it reaches runs, and
\* calls its onMouseMove if its shouldReportDrag is set; an onMouseMove
\* registered as a listener itself would be called as well
MouseMove ==
    /\ reported' =
           {k \in DOMAIN effects :
               \/ /\ Handler("handleMouseMove", k)
                         \in Hears(listeners, "document", "mousemove")
                  /\ effects[k].shouldReportDrag
               \/ Handler("onMouseMove", k)
                      \in Hears(listeners, "document", "mousemove")}
    /\ last' = Call("mousemove", None, None, Done, 0)
    /\ UNCHANGED <<treeVars, viewVars, extVars, virtVars, itemVars, adds,
                   mounted, enabled, effects, listeners, expandedDirs>>

DragNext ==
    \/ \E en \in BOOLEAN : Mount(en)
    \/ \E en \in BOOLEAN : SetEnabled(en)
    \/ SetCallback
    \/ Unmount
    \/ \E tag \in Tags : MouseDown(tag)
    \/ MouseUp
    \/ MouseMove

DragSpec == Init /\ [][DragNext]_vars

---------------------------------------------------------------------------
(* Properties of the tree model.                                           *)

\* the directories above x on its parent chain, at most n links up
RECURSIVE Above(_, _, _)
Above(p, x, n) ==
    IF n = 0 \/ p[x] = None THEN {}
    ELSE {p[x]} \cup Above(p, p[x], n - 1)

Ancestors(p, x) == Above(p, x, Cardinality(Items))

\* x's parent chain comes back to x
OnCycle(p, x) == x \in Ancestors(p, x)

\* the items that have d on their parent chain
Descendants(p, d) == {x \in Items : d \in Ancestors(p, x)}

\* x is tombstoned (if a directory) and gone from its parent's children
Gone(x, p, del, ch) ==
    /\ x \in Dirs => del[x]
    /\ p[x] # None => x \notin Range(ch[p[x]])

\* the step is a call of d.parent.delete(d) that returned
ParentDeleted(d) ==
    /\ last'.op = "delete"
    /\ last'.item = d
    /\ last'.target = parent[d]
    /\ last'.error = None

\* C1: cascading delete.  When parent.delete(d) returns for a Directory d,
\* d and every item that had d on its parent chain is tombstoned (the
\* directories) and absent from its parent's children.
C1_CascadingDelete ==
    [][\A d \in Dirs :
           ParentDeleted(d) =>
               \A x \in {d} \cup Descendants(parent, d) :
                   Gone(x, parent, deleted', children')]_vars

\* C1's case: in a tree without cycles, one call of parent.delete(d) has
\* tombstoned d together with a directory below it, and an item two levels
\* below d is gone from that directory's children.
C1_Witness ==
    /\ last.op = "delete"
    /\ last.error = None
    /\ last.item \in Dirs
    /\ last.target = parent[last.item]
    /\ last.tombstoned >= 2
    /\ \E x \in Dirs, y \in Items :
           /\ parent[x] = last.item
           /\ parent[y] = x
           /\ deleted[x]
           /\ y \notin Range(children[x])
    /\ \A x \in Items : ~OnCycle(parent, x)

\* C2: Directory.add on a tombstoned directory throws InvalidOperation and
\* changes nothing; on any other directory it sets item.parent to the
\* directory, appends item to its children and returns item.
C2_AddGuard ==
    [][last'.op = "add" =>
           LET this == last'.target
               item == last'.item
           IN  IF deleted[this]
               THEN /\ last'.error = "InvalidOperation"
                    /\ parent' = parent
                    /\ children' = children
                    /\ deleted' = deleted
               ELSE /\ last'.error = None
                    /\ last'.returned = item
                    /\ parent' = [parent EXCEPT ![item] = this]
                    /\ children' = [children EXCEPT ![this] = Append(@, item)]
                    /\ deleted' = deleted]_vars

\* C2's case: an add on a tombstoned directory has just been refused, while
\* an earlier add on a live directory is still in place.
C2_Witness ==
    /\ last.op = "add"
    /\ last.error = "InvalidOperation"
    /\ deleted[last.target]
    /\ children[last.target] = <<>>
    /\ \E d \in Dirs, x \in Items :
           ~deleted[d] /\ parent[x] = d /\ x \in Range(children[d])

\* C3: the tree has no cycles: every item's parent chain ends at an item
\* whose parent is None.
C3_NoCycles == \A x \in Items : ~OnCycle(parent, x)

\* C4: once tombstoned, never reused: a tombstoned directory stays
\* tombstoned, gains no children, and is in no directory's children in any
\* later state.
C4_TombstoneFinal ==
    [][\A d \in Dirs :
           deleted[d] =>
               /\ deleted'[d]
               /\ Len(children'[d]) <= Len(children[d])
               /\ \A e \in Dirs : d \notin Range(children'[e])]_vars

\* C8: Directory.delete(item) on an item that is no longer among the
\* children of its parent throws nothing and leaves every directory's
\* children and every tombstone as they were.
C8_DeleteRemovedIsNoOp ==
    [][(/\ last'.op = "delete"
        /\ last'.target = parent[last'.item]
        /\ last'.item \notin Range(children[last'.target]))
       => /\ last'.error = None
          /\ children' = children
          /\ deleted' = deleted]_vars

\* C8's case: in a tree without cycles, item.parent.delete(item) has just
\* returned for a directory that the cascade from a live grandparent through
\* its (now tombstoned) parent had already removed.
C8_Witness ==
    /\ last.op = "delete"
    /\ last.error = None
    /\ last.tombstoned = 0
    /\ last.item \in Dirs
    /\ last.target = parent[last.item]
    /\ deleted[last.target]
    /\ deleted[last.item]
    /\ parent[last.target] \in Dirs
    /\ ~deleted[parent[last.target]]
    /\ \A x \in Items : ~OnCycle(parent, x)

\* no item of s has a name that sorts before the name of an earlier one
Sorted(s) == \A i, j \in 1..Len(s) : i < j => ~NameBefore(s[j], s[i])

\* how many times x occurs in s
Count(s, x) == Cardinality({k \in 1..Len(s) : s[k] = x})

\* C12: after add calls on a non-deleted Directory, in any order, the
\* children read is sorted by name and holds exactly the added items (each
\* add puts one more occurrence of its item into what is read, and nothing
\* else), and a read leaves the internal insertion-ordered collection as it
\* is.
C12_ChildrenSorted ==
    [][/\ (last'.op = "add" /\ last'.error = None) =>
              LET before == ChildrenOf(children, last'.target)
                  after  == ChildrenOf(children', last'.target)
              IN  /\ Sorted(after)
                  /\ \A x \in Items :
                         Count(after, x) =
                             Count(before, x) + (IF x = last'.item THEN 1 ELSE 0)
       /\ last'.op = "children" =>
              /\ Sorted(last'.returned)
              /\ \A x \in Items :
                     Count(last'.returned, x) = Count(children[last'.target], x)
              /\ children' = children]_vars

\* C12's case: three items were added to a directory in an order that is
\* not the order of their names, and its children have been read: the
\* value read is not the internal collection, which is as it was.
C12_Witness ==
    /\ last.op = "children"
    /\ Len(last.returned) >= 3
    /\ ~Sorted(children[last.target])
    /\ last.returned # children[last.target]

\* C18: parent/child consistency.  Every item in a directory's children has
\* that directory for parent, no item is in the children of two
\* directories, and none is twice in the children of one.
C18_ParentChildConsistent ==
    /\ \A d \in Dirs : \A x \in Range(children[d]) : parent[x] = d
    /\ \A x \in Items :
           Cardinality({d \in Dirs : x \in Range(children[d])}) <= 1
    /\ \A d \in Dirs, x \in Items : Count(children[d], x) <= 1

\* x's parent chain ends at an item without parent
Rooted(p, x) == \E a \in {x} \cup Ancestors(p, x) : p[a] = None

\* the names from the root down to x, each after the first behind a "/"
RECURSIVE PathFromRoot(_, _, _)
PathFromRoot(name, p, x) ==
    IF p[x] = None THEN name[x]
    ELSE PathFromRoot(name, p, p[x]) \o "/" \o name[x]

\* C16: the path of an item is the names on its parent chain from the root
\* down to the item, joined by "/", the root's name coming first: for the
\* root named "" with the chain root, "a", "b.txt" the file's path is
\* "/a/b.txt".
C16_Path ==
    /\ (pathResult.tree = "items" /\ Rooted(parent, pathResult.item)) =>
           /\ pathResult.error = None
           /\ pathResult.path = PathFromRoot(ItemName, parent, pathResult.item)
    /\ pathResult.tree = "chain" =>
           /\ pathResult.error = None
           /\ pathResult.path =
                  PathFromRoot(ChainName, ChainParent, pathResult.item)
    /\ (pathResult.tree = "chain" /\ pathResult.item = "b.txt") =>
           pathResult.path = "/a/b.txt"

\* C16's case: the path was read of a file two directories below a root.
C16_Witness ==
    /\ pathResult.tree = "items"
    /\ pathResult.item \in Files
    /\ pathResult.error = None
    /\ parent[pathResult.item] # None
    /\ parent[parent[pathResult.item]] # None
    /\ parent[parent[parent[pathResult.item]]] = None
    /\ pathResult.path = "root/docs/notes"

---------------------------------------------------------------------------
(* Properties of the selection.                                            *)

\* the places of x in the sequence u
Places(u, x) == {k \in 1..Len(u) : u[k] = x}

\* the index of x in u: its first place
FirstPlace(u, x) == CHOOSE k \in Places(u, x) : \A j \in Places(u, x) : k <= j

\* k lies in the inclusive span between a and b, whichever comes first
Within(k, a, b) == (a <= k /\ k <= b) \/ (b <= k /\ k <= a)

\* the step is a click on an item with the given modifier
Clicked(modifier) == last'.op = "click" /\ last'.target = modifier

\* C5: a range click with an anchor selects exactly the universe items whose
\* index lies in the inclusive span between the anchor's index and the
\* item's, in either order, and keeps the anchor; without an anchor (at
\* first, or after clear()) it acts as a plain click.
C5_RangeClick ==
    [][/\ Clicked("range") =>
              LET u    == selection.universe
                  item == last'.item
              IN  IF selection.anchor # None
                  THEN /\ selection'.selected =
                              {u[k] : k \in {j \in 1..Len(u) :
                                  Within(j, FirstPlace(u, selection.anchor),
                                            FirstPlace(u, item))}}
                       /\ selection'.anchor = selection.anchor
                       /\ selection'.universe = u
                  ELSE /\ selection'.selected = {item}
                       /\ selection'.anchor = item
                       /\ selection'.universe = u
       /\ (last'.op = "canvas" /\ last'.target = "plain") =>
              selection'.selected = {} /\ selection'.anchor = None]_vars

\* C5's case: a range click on an item that comes before the anchor, with an
\* item between the two, has selected the three of them and kept the anchor.
C5_Witness ==
    /\ last.op = "click"
    /\ last.target = "range"
    /\ selection.anchor # None
    /\ selection.anchor # last.item
    /\ FirstPlace(selection.universe, last.item) + 1
           < FirstPlace(selection.universe, selection.anchor)
    /\ Cardinality(selection.selected) = 3

\* C6: a plain click selects exactly the item; a toggle click flips the
\* item's membership and no other; both make the item the anchor.
C6_PlainAndToggleClick ==
    [][/\ Clicked("plain") =>
              /\ selection'.selected = {last'.item}
              /\ selection'.anchor = last'.item
       /\ Clicked("toggle") =>
              /\ (last'.item \in selection'.selected)
                     <=> (last'.item \notin selection.selected)
              /\ \A x \in Items \ {last'.item} :
                     (x \in selection'.selected) <=> (x \in selection.selected)
              /\ selection'.anchor = last'.item]_vars

\* C6's case: a toggle click has just removed the clicked item from a
\* selection that keeps its other items, and the removed item is the anchor.
C6_Witness ==
    /\ last.op = "click"
    /\ last.target = "toggle"
    /\ last.item \notin selection.selected
    /\ selection.selected # {}
    /\ selection.anchor = last.item

\* C11: the Selection invariant.  After any plain, toggle and range clicks
\* on items of the universe and any clear() calls, every selected item is
\* a member of the universe the Selection was constructed with, and so is
\* the anchor when there is one.
C11_SelectedWithinUniverse ==
    /\ selection.universe = ChildrenOf(children, "root")
    /\ selection.selected \subseteq Range(selection.universe)
    /\ selection.anchor # None => selection.anchor \in Range(selection.universe)

\* C11's case: clicks have left several items selected and an anchor that
\* is not one of them: a toggle click took the anchor out of a range.
C11_Witness ==
    /\ last.op = "click"
    /\ last.target = "toggle"
    /\ Cardinality(selection.selected) >= 2
    /\ selection.anchor # None
    /\ selection.anchor \notin selection.selected

\* C19: click routing.  A click on the canvas clears the selection when
\* neither ctrl nor shift is held and leaves it alone otherwise; a click on
\* an item does what Selection.fromClickEvent does and nothing more, so the
\* canvas does not clear what the click selected.
C19_ClickRouting ==
    [][/\ last'.op = "canvas" =>
              IF last'.target \notin {"toggle", "range", "toggle+range"}
              THEN selection'.selected = {} /\ selection'.anchor = None
              ELSE selection' = selection
       /\ last'.op = "click" =>
              /\ selection' = FromClickEvent(selection, last'.item, last'.target)
              /\ selection'.anchor # None
              /\ last'.target = "plain" => selection'.selected = {last'.item}]_vars

\* C19's case: a plain click on an item of a universe of several items has
\* just been handled, and the item is selected and is the anchor.
C19_Witness ==
    /\ last.op = "click"
    /\ last.target = "plain"
    /\ Len(selection.universe) >= 2
    /\ selection.selected = {last.item}
    /\ selection.anchor = last.item

---------------------------------------------------------------------------
(* Properties of the view model.                                           *)

\* C7: when deleteSelection returns, every item that was in selection.items
\* is absent from its parent's children, and the view model holds a new
\* Selection: nothing selected, no anchor, and for universe cwd.children as
\* they are after the deletions.
C7_DeleteSelection ==
    [][(last'.op = "deleteSelection" /\ last'.error = None) =>
           /\ \A x \in Range(SelectionItems(selection)) :
                  parent[x] # None => x \notin Range(children'[parent[x]])
           /\ selection' = NewSelection(ChildrenOf(children', cwd'))]_vars

\* C7's case: in a tree without cycles, deleteSelection has just deleted a
\* selected directory, and the fresh Selection ranges over the children cwd
\* is left with.
C7_Witness ==
    /\ last.op = "deleteSelection"
    /\ last.error = None
    /\ last.tombstoned >= 1
    /\ selection.universe # <<>>
    /\ selection.selected = {}
    /\ \A x \in Items : ~OnCycle(parent, x)

\* C17: deleteSelection is idempotent.  A call made directly after a call
\* that returned does not raise and leaves the tree, cwd and the selected
\* set as that call left them.
C17_DeleteSelectionTwice ==
    [][(/\ last.op = "deleteSelection"
        /\ last.error = None
        /\ last'.op = "deleteSelection")
       => /\ last'.error = None
          /\ parent' = parent
          /\ deleted' = deleted
          /\ children' = children
          /\ cwd' = cwd
          /\ selection'.selected = selection.selected]_vars

\* C17's case: in a tree without cycles where a directory of cwd has been
\* deleted and cwd keeps a child, deleteSelection has just returned from a
\* call made directly after another.
C17_Witness ==
    /\ last.op = "deleteSelection"
    /\ last.target = "again"
    /\ last.error = None
    /\ selection.selected = {}
    /\ selection.universe # <<>>
    /\ \E d \in Dirs : deleted[d] /\ parent[d] = cwd /\ d \notin Range(children[cwd])
    /\ \A x \in Items : ~OnCycle(parent, x)

\* r is name with the white space cut from its two ends: name is white
\* space, then r, then white space, and r neither starts nor ends with any
IsTrimOf(r, name) ==
    \E i, j \in 0..Len(name) :
        /\ i + Len(r) + j = Len(name)
        /\ \A k \in 1..Len(r) : r[k] = name[i + k]
        /\ \A k \in 1..i : name[k] \in WhiteSpace
        /\ \A k \in (Len(name) - j + 1)..Len(name) : name[k] \in WhiteSpace
        /\ r # <<>> => (r[1] \notin WhiteSpace /\ r[Len(r)] \notin WhiteSpace)

\* C15: create(type, name) fails with InvalidArgument and returns nothing
\* when name is empty or all white space; otherwise it returns an item of
\* the requested type that carries the trimmed name and has no parent; in
\* both cases the tree and cwd are as they were.
C15_Create ==
    [][last'.op = "create" =>
           LET type == created'.type
               name == created'.name
           IN  /\ parent' = parent
               /\ children' = children
               /\ deleted' = deleted
               /\ cwd' = cwd
               /\ IF \A k \in 1..Len(name) : name[k] \in WhiteSpace
                  THEN /\ created'.error = "InvalidArgument"
                       /\ created'.returned = Nothing
                  ELSE /\ created'.error = None
                       /\ created'.returned.type = type
                       /\ IsTrimOf(created'.returned.name, name)
                       /\ created'.returned.parent = None]_vars

\* C15's case: create was called with the name "   " in a directory that
\* has children, and threw.
C15_Witness ==
    /\ last.op = "create"
    /\ created.name = <<" ", " ", " ">>
    /\ created.error = "InvalidArgument"
    /\ children[cwd] # <<>>

\* C9: the universe of the active Selection is the current cwd.children.
C9_UniverseIsCwdChildren ==
    selection.universe = ChildrenOf(children, cwd)

\* C21: expandedDirs holds only live directories: no tombstoned Directory
\* is a member of expandedDirs, so expanded(item) is false for every
\* tombstoned directory.
C21_ExpandedDirsLive ==
    /\ \A d \in expandedDirs : ~deleted[d]
    /\ \A d \in Dirs : deleted[d] => ~Expanded(d)

---------------------------------------------------------------------------
(* Properties of the Virtualizer.                                          *)

\* the span [i * itemHeight, (i + 1) * itemHeight) of row position i meets
\* the viewport [top, top + height)
Intersects(i, top, height) ==
    i * ItemHeight < top + height /\ (i + 1) * ItemHeight > top

\* C13: the visible range.  The visible rows are exactly the rows whose
\* span meets the viewport (rows 20 to 29 for 1000 rows of height 24, a
\* viewport of 240 and a scroll offset of 480); they are all materialized;
\* every materialized row is a row of items, is placed at index *
\* itemHeight, and is at most `overscan` row positions away from a position
\* that meets the viewport.
C13_VisibleRange ==
    /\ layout.first..layout.final =
           {i \in 0..(rowCount - 1) : Intersects(i, scrollTop, viewportHeight)}
    /\ (rowCount = 1000 /\ viewportHeight = 240 /\ scrollTop = 480) =>
           (layout.first = 20 /\ layout.final = 29)
    /\ \A i \in layout.first..layout.final :
           \E r \in layout.rendered : r.index = i
    /\ \A r \in layout.rendered :
           /\ r.index \in 0..(rowCount - 1)
           /\ r.top = r.index * ItemHeight
           /\ \E i \in (r.index - overscan)..(r.index + overscan) :
                  Intersects(i, scrollTop, viewportHeight)

\* C13's case: the specification's scenario, with an overscan: rows 20 to
\* 29 are visible and more rows than those are materialized.
C13_Witness ==
    /\ rowCount = 1000
    /\ viewportHeight = 240
    /\ scrollTop = 480
    /\ overscan > 0
    /\ last.op = "scroll"
    /\ Cardinality(layout.rendered) = 10 + 2 * overscan

\* C14: the extent across layout passes.  After every layout pass the total
\* scrollable extent is items.length * itemHeight for the items of that
\* pass (24000 for 1000 rows), whatever the scroll offset, the overscan and
\* the rows materialized, and no materialized row has an index at or
\* beyond items.length.
C14_ExtentFollowsItems ==
    /\ layout.extent = rowCount * ItemHeight
    /\ rowCount = 1000 => layout.extent = 24000
    /\ \A r \in layout.rendered : r.index < rowCount

\* C14's case: items has become shorter, by rows that the pass before had
\* materialized, while the viewport is scrolled down and reaches beyond the
\* rows that are left; the last of those is materialized.
C14_Witness ==
    /\ last.op = "items"
    /\ last.target > rowCount
    /\ rowCount >= 2
    /\ scrollTop > 0
    /\ scrollTop + viewportHeight > layout.extent
    /\ scrollTop < layout.extent
    /\ \E r \in layout.rendered : r.index = rowCount - 1
    /\ Cardinality(layout.rendered) < rowCount

---------------------------------------------------------------------------
(* Properties of useDragListener.                                          *)

\* the effects whose cleanup has not run
Active(efs) == {k \in DOMAIN efs : efs[k].active}

\* C20: the drag listener's lifecycle.  While an effect is active, its
\* onMouseMove is invoked for a mousemove exactly when a mousedown on the
\* element with a target that is no BUTTON has been followed by no mouseup;
\* once the cleanup of an effect has run, none of the listeners it
\* registered remains and its onMouseMove is not invoked again.
C20_DragListenerLifecycle ==
    [][/\ \A k \in Active(effects) \cap Active(effects') :
              /\ last'.op = "mousedown" =>
                     effects'[k].shouldReportDrag =
                         (effects[k].shouldReportDrag \/ last'.target # "BUTTON")
              /\ last'.op = "mouseup" => ~effects'[k].shouldReportDrag
              /\ last'.op = "mousemove" =>
                     (k \in reported' <=> effects[k].shouldReportDrag)
       /\ \A l \in listeners' : l.handler.effect \in Active(effects')
       /\ reported' \subseteq Active(effects')]_vars

---------------------------------------------------------------------------
(* Properties of File.ext.                                                 *)

HasDot(name) == \E k \in 1..Len(name) : name[k] = Dot

\* the place of the last "." of a name that has one
LastDot(name) ==
    CHOOSE k \in 1..Len(name) :
        name[k] = Dot /\ \A j \in (k + 1)..Len(name) : name[j] # Dot

\* the extension as the specification gives it: what follows the last ".",
\* and nothing for a name without "." or with its only "." in front
ExtOfName(name) ==
    IF ~HasDot(name) THEN <<>>
    ELSE IF LastDot(name) = 1 THEN <<>>
    ELSE SubSeq(name, LastDot(name) + 1, Len(name))

\* C10: File.ext is what follows the last "." of the name, and is empty for
\* a name without "." and for a name whose only "." is its first character
\* ("report.tar.gz" gives "gz", "README" "", ".gitignore" "").
C10_Ext == extResult # NotRead => extResult = ExtOfName(extName)

=============================================================================
